---- MODULE Spec2Model ----
(***************************************************************************)
(* The session store (zustand, subscribeWithSelector), the sendMessage     *)
(* protocol, the chat API wrapper and the map surface's map-action         *)
(* observer of the GeoGPT research platform front end.                     *)
(*                                                                         *)
(* A JavaScript value that may be undefined/null is a sequence of length   *)
(* 0 (None) or 1 (Some(x)).  Opacity is kept in percent (1.0 = 100).       *)
(* now is the clock Date.now() reads, in milliseconds; channel is the      *)
(* ChatWebSocket instance; popupData and hoveredFeature are MapView's       *)
(* popup and tooltip states; sends are the chat panel's handleSend calls.  *)
(***************************************************************************)
EXTENDS Integers, Sequences, FiniteSets, TLC

VARIABLES store, obs, camera, enqueued, calls, log, now, channel, popupData,
          hoveredFeature, sends

vars == <<store, obs, camera, enqueued, calls, log, now, channel, popupData,
          hoveredFeature, sends>>

\* the store, its observer and the chat calls
app == <<store, obs, camera, enqueued, calls, log>>

RECURSIVE notify(_)

None == <<>>
Some(x) == <<x>>

\* reading a property of an object: undefined when the object has none
Field(object, name) == IF name \in DOMAIN object THEN object[name] ELSE None

\* the truth value JavaScript gives an optional number
TruthyNumber(v) == v # None /\ v[1] # 0

\* x || d for an optional number
OrDefault(v, d) == IF TruthyNumber(v) THEN v[1] ELSE d

----------------------------------------------------------------------------
(* Bounds of the model *)

\* number of sendMessage calls started in one behaviour
MaxCalls == 2
\* number of map actions after which setMapAction is no longer called directly
MaxRefs == 2
\* number of times the map surface (re-)subscribes its observer
MaxSubs == 2

\* zoom level above which the zoom-in button is no longer pressed
MaxZoom == 6

\* number of socket chains (a connect() and the reconnections that follow
\* from its socket's closes) alive at one time
MaxConnects == 2
\* milliseconds after which the clock is no longer advanced
MaxNow == 2

CallIds == 1..MaxCalls

----------------------------------------------------------------------------
(* Input domains *)

Queries == {"show air quality", "show fires"}

\* wire layers {id, type, source, paint}; source and paint are opaque
WireAir == [id |-> "air", type |-> "circle"]
WireFire == [id |-> "fire", type |-> "heatmap"]
WireAirLine == [id |-> "air", type |-> "line"]

FlyTo == [type |-> "flyTo", bounds |-> None]
FitBounds == [type |-> "fitBounds", bounds |-> Some("kz")]
FitNoBounds == [type |-> "fitBounds", bounds |-> None]

WireActions == {FlyTo, FitBounds, FitNoBounds}

\* map actions with camera options: a field is absent, 0, or another value;
\* pitch and bearing are given together or not at all
CameraActions ==
    { [type |-> "flyTo", bounds |-> None, zoom |-> z, duration |-> d,
       pitch |-> pb[1], bearing |-> pb[2]] :
          z \in {None, Some(0), Some(5)}, d \in {None, Some(0), Some(1000)},
          pb \in {<<None, None>>, <<Some(60), Some(90)>>} }
    \cup
    { [type |-> "fitBounds", bounds |-> Some("kz"), padding |-> p, duration |-> d] :
          p \in {None, Some(100)}, d \in {None, Some(1000)} }

\* ChatResponse bodies the backend can answer with (response.data)
Response(msg, lays, ch, act) ==
    [message |-> msg, status |-> "success", map_layers |-> lays, chart |-> ch,
     map_action |-> act]

Responses ==
    { Response(Some("ok"), Some(<<>>), Some("bar"), None),
      Response(Some("ok"), Some(<<WireAir>>), Some("bar"), None),
      Response(Some("ok"), Some(<<WireAir, WireFire>>), Some("line"), None),
      Response(Some("ok"), Some(<<WireAir, WireAirLine>>), Some("line"), None),
      Response(Some("ok"), None, None, Some(FlyTo)),
      Response(Some("ok"), None, None, None),
      Response(None, None, None, None) }

\* what the transport delivers for one POST /api/chat: a network failure,
\* or a body, which is a ChatResponse or JSON null
TransportFailure == [ok |-> FALSE, data |-> None]
NullBody == [ok |-> TRUE, data |-> None]

Outcomes ==
    {TransportFailure, NullBody} \cup { [ok |-> TRUE, data |-> Some(r)] : r \in Responses }

\* the outcomes that matter to the map-action queue
ActionOutcomes ==
    {TransportFailure} \cup
    { [ok |-> TRUE, data |-> Some(Response(Some("ok"), None, None, Some(a)))] :
          a \in WireActions }

\* layers the panels add by hand
ManualLayers ==
    { [id |-> "air", name |-> "air", type |-> "geojson",
       visible |-> TRUE, opacity |-> 100],
      [id |-> "glaciers", name |-> "glaciers", type |-> "geojson",
       visible |-> TRUE, opacity |-> 100] }

LayerIds == {"air", "fire", "glaciers"}

\* values setLayerOpacity is called with, in percent: below 0, 0, above 1
StoredOpacities == {-20, 0, 150}

\* what the chat panel's text box holds: a sequence of pieces, each
\* white space (Blank) or a query
Blank == " "

Inputs ==
    { <<>>, <<Blank>>, <<Blank, Blank>>, <<"show fires">>, <<Blank, "show fires">>,
      <<"show fires", Blank>>, <<Blank, "show fires", Blank>> }

\* a flyTo action with a center and a zoom
FlyToCenter ==
    [type |-> "flyTo", bounds |-> None, center |-> Some(<<71, 51>>), zoom |-> Some(5)]

\* view states the map engine reports while the user drags, tilts or turns
MovedViews ==
    { [longitude |-> 71, latitude |-> 51, zoom |-> 5, pitch |-> 30, bearing |-> 90],
      [longitude |-> 67, latitude |-> 48, zoom |-> 4, pitch |-> 0, bearing |-> 0] }

BasemapIds == {"dark", "satellite"}

\* the sidebar's panels
Panels == {"chat", "layers", "data", "code"}

\* layers with a paint descriptor, as the map surface gets them to render;
\* "raster" stands for a type tag the renderer has no case for
RenderLayers ==
    { [id |-> "a", name |-> "a", type |-> t, visible |-> TRUE, opacity |-> 100,
       paint |-> None] : t \in {"geojson", "circle", "line", "raster"} }
    \cup
    { [id |-> "b", name |-> "b", type |-> t, visible |-> TRUE, opacity |-> 100,
       paint |-> Some("fill-opacity" :> Some(50))] :
          t \in {"geojson", "heatmap", "fill-extrusion"} }

\* the numeric paint fields renderLayer reads for a type tag
PaintNames(type) ==
    IF type = "fill-extrusion"
    THEN {"fill-extrusion-base", "fill-extrusion-opacity"}
    ELSE IF type = "heatmap"
    THEN {"heatmap-weight", "heatmap-intensity", "heatmap-radius", "heatmap-opacity"}
    ELSE IF type = "circle" THEN {"circle-radius", "circle-stroke-width"}
    ELSE IF type = "line" THEN {"line-width"}
    ELSE {"fill-opacity"}

\* layers whose descriptor has no paint, or a paint in which each numeric
\* field of the type is absent, 0 or 5
PaintLayers ==
    UNION { { [id |-> "p", name |-> "p", type |-> t, visible |-> TRUE,
               opacity |-> 100, paint |-> pt] :
                 pt \in {None} \cup { Some(f) :
                            f \in [PaintNames(t) -> {None, Some(0), Some(5)}] } } :
            t \in {"fill-extrusion", "heatmap", "circle", "line", "geojson"} }

\* positions of the opacity slider
SliderOpacities == {0, 50}

\* properties of the features under a click: each field is absent (None)
\* or has a value; discharge and population are numbers
Properties ==
    [type : {None, Some("glacier"), Some("river"), Some("lake"), Some("city"),
             Some("region"), Some("capital")},
     glacier_type : {None, Some("valley")},
     discharge : {None, Some(120)},
     lake_type : {None, Some("salt")},
     population : {None, Some(9000)}]

\* evt.features[0]: a feature with properties, or with properties null
Features ==
    {[properties |-> None]} \cup { [properties |-> Some(p)] : p \in Properties }

\* evt.lngLat of a click
LngLats == {<<67, 48>>, <<77, 43>>}

\* evt.features[0] of a mouse move, by what onMouseMove reads of it: the
\* properties are null, or have no name, an empty name or a name
HoverFeatures ==
    {[properties |-> None]}
    \cup { [properties |-> Some([name |-> n])] :
              n \in {None, Some(""), Some("Tuyuksu"), Some("Ili")} }

----------------------------------------------------------------------------
(* Messages *)

\* message ids: 'welcome', or `msg-${Date.now()}`
WelcomeId == <<"welcome", 0>>
MsgId(t) == <<"msg", t>>

WelcomeMessage ==
    [id |-> WelcomeId, role |-> "assistant", content |-> Some("welcome"),
     chart |-> None, mapAction |-> None, mapLayers |-> None]

\* the one message clearMessages() leaves
ClearedMessage ==
    [id |-> WelcomeId, role |-> "assistant",
     content |-> Some("Chat cleared. How can I help you with geospatial analysis?"),
     chart |-> None, mapAction |-> None, mapLayers |-> None]

FailedText == "Failed to process request. Please try again."

FallbackText ==
    [q \in Queries |->
        IF q = "show air quality"
        THEN "I received your query: show air quality. The backend server might not be running."
        ELSE "I received your query: show fires. The backend server might not be running."]

----------------------------------------------------------------------------
(* The store: state and its synchronous mutations.  A mutation works on a   *)
(* world w = [s: store state, o: observer, cam: camera commands issued,    *)
(* enq: the action objects enqueued so far] because zustand's set() calls  *)
(* the subscribed listeners before it returns.  An action object's         *)
(* identity (ref) is its position in enq.                                  *)

InitViewState ==
    [longitude |-> 67, latitude |-> 48, zoom |-> 4, pitch |-> 0, bearing |-> 0]

InitStore ==
    [viewState |-> InitViewState,
     selectedBasemap |-> "dark",
     is3DEnabled |-> FALSE,
     isSidebarOpen |-> TRUE,
     activePanel |-> "chat",
     showCode |-> FALSE,
     showChart |-> TRUE,
     layers |-> <<>>,
     pendingMapAction |-> None,
     messages |-> <<WelcomeMessage>>,
     isLoading |-> FALSE,
     currentChart |-> None]

InitObs ==
    [subscribed |-> FALSE, slice |-> None, mapRef |-> FALSE,
     epoch |-> 0, consumed |-> <<>>]

World == [s |-> store, o |-> obs, cam |-> camera, enq |-> enqueued, now |-> now]

Ids(ls) == { ls[i].id : i \in 1..Len(ls) }

handleMapAction(w, action) ==
    IF ~w.o.mapRef THEN w
    ELSE IF action.a.type = "flyTo"
         THEN [w EXCEPT !.cam = Append(@,
                 [ref |-> action.ref, cmd |-> "flyTo",
                  options |-> [zoom |-> OrDefault(Field(action.a, "zoom"), 12),
                               pitch |-> OrDefault(Field(action.a, "pitch"), 0),
                               bearing |-> OrDefault(Field(action.a, "bearing"), 0),
                               duration |-> OrDefault(Field(action.a, "duration"), 2000)]])]
    ELSE IF action.a.type = "fitBounds" /\ action.a.bounds # None
         THEN [w EXCEPT !.cam = Append(@,
                 [ref |-> action.ref, cmd |-> "fitBounds",
                  options |-> [padding |-> 50, duration |-> 2000]])]
    ELSE w

clearMapAction(w) == notify([w EXCEPT !.s.pendingMapAction = None])

\* the listener forgetting clearMapAction()
listener_NoClear(w, action) ==
    IF action # None
    THEN handleMapAction(
             [w EXCEPT !.o.consumed =
                  Append(@, [ref |-> action[1].ref, epoch |-> w.o.epoch])],
             action[1])
    ELSE w

listener(w, action) ==
    IF action # None
    THEN clearMapAction(
             handleMapAction(
                 [w EXCEPT !.o.consumed =
                      Append(@, [ref |-> action[1].ref, epoch |-> w.o.epoch])],
                 action[1]))
    ELSE w

\* a plain subscription: the listener runs after every set()
notify_EveryWrite(w) ==
    IF ~w.o.subscribed
    THEN w
    ELSE listener([w EXCEPT !.o.slice = w.s.pendingMapAction],
                  w.s.pendingMapAction)

\* subscribeWithSelector: after every set(), the selected slice is compared
\* (Object.is) with the slice last seen and the listener runs on a change
notify(w) ==
    IF ~w.o.subscribed \/ w.s.pendingMapAction = w.o.slice
    THEN w
    ELSE listener([w EXCEPT !.o.slice = w.s.pendingMapAction],
                  w.s.pendingMapAction)

\* addLayer appending without removing the layer of the same id
addLayer_NoFilter(w, layer) ==
    notify([w EXCEPT !.s.layers = Append(@, layer)])

\* addLayer updating a layer of the same id in place
addLayer_InPlace(w, layer) ==
    notify([w EXCEPT !.s.layers =
                IF layer.id \in Ids(@)
                THEN [i \in 1..Len(@) |-> IF @[i].id = layer.id THEN layer ELSE @[i]]
                ELSE Append(@, layer)])

addLayer(w, layer) ==
    notify([w EXCEPT !.s.layers =
                Append(SelectSeq(@, LAMBDA l : l.id # layer.id), layer)])

removeLayer(w, layerId) ==
    notify([w EXCEPT !.s.layers = SelectSeq(@, LAMBDA l : l.id # layerId)])

clearLayers(w) == notify([w EXCEPT !.s.layers = <<>>])

\* toggleLayerVisibility that hides instead of flipping
toggleLayerVisibility_Hide(w, layerId) ==
    notify([w EXCEPT !.s.layers =
                [i \in 1..Len(@) |->
                    IF @[i].id = layerId
                    THEN [@[i] EXCEPT !.visible = FALSE]
                    ELSE @[i]]])

toggleLayerVisibility(w, layerId) ==
    notify([w EXCEPT !.s.layers =
                [i \in 1..Len(@) |->
                    IF @[i].id = layerId
                    THEN [@[i] EXCEPT !.visible = ~@]
                    ELSE @[i]]])

\* setLayerOpacity clamping the value to [0, 1]
setLayerOpacity_Clamped(w, layerId, opacity) ==
    notify([w EXCEPT !.s.layers =
                [i \in 1..Len(@) |->
                    IF @[i].id = layerId
                    THEN [@[i] EXCEPT !.opacity = IF opacity < 0 THEN 0
                                                   ELSE IF opacity > 100 THEN 100
                                                   ELSE opacity]
                    ELSE @[i]]])

setLayerOpacity(w, layerId, opacity) ==
    notify([w EXCEPT !.s.layers =
                [i \in 1..Len(@) |->
                    IF @[i].id = layerId
                    THEN [@[i] EXCEPT !.opacity = opacity]
                    ELSE @[i]]])

\* every action object handed to setMapAction is a fresh object
setMapAction(w, a) ==
    notify([w EXCEPT !.s.pendingMapAction = Some([ref |-> Len(w.enq) + 1, a |-> a]),
                     !.enq = Append(@, a)])

\* a shallow merge of the given fields into the view state
setViewState(w, viewState) ==
    notify([w EXCEPT !.s.viewState =
                [k \in DOMAIN @ |->
                    IF k \in DOMAIN viewState THEN viewState[k] ELSE @[k]]])

setBasemap(w, basemapId) == notify([w EXCEPT !.s.selectedBasemap = basemapId])

\* toggle3D leaving the pitch alone
toggle3D_FlagOnly(w) == notify([w EXCEPT !.s.is3DEnabled = ~@])

toggle3D(w) ==
    notify([w EXCEPT !.s.is3DEnabled = ~@,
                     !.s.viewState.pitch = IF w.s.is3DEnabled THEN 0 ELSE 45])

\* addMessage putting the new message first
addMessage_Prepend(w, message) ==
    notify([w EXCEPT !.s.messages = <<[id |-> MsgId(w.now)] @@ message>> \o @])

\* { ...message, id: `msg-${Date.now()}` } appended (the timestamp, read
\* from the same clock, is left out)
addMessage(w, message) ==
    notify([w EXCEPT !.s.messages = Append(@, [id |-> MsgId(w.now)] @@ message)])

\* clearMessages leaving an empty list
clearMessages_Empty(w) ==
    notify([w EXCEPT !.s.messages = <<>>, !.s.currentChart = None])

\* clearMessages resetting the messages only
clearMessages_KeepChart(w) ==
    notify([w EXCEPT !.s.messages = <<ClearedMessage>>])

clearMessages(w) ==
    notify([w EXCEPT !.s.messages = <<ClearedMessage>>, !.s.currentChart = None])

\* setLoading that can only switch the indicator on
setLoading_OnlyOn(w, loading) == notify([w EXCEPT !.s.isLoading = TRUE])

setLoading(w, loading) == notify([w EXCEPT !.s.isLoading = loading])

setChart(w, chart) == notify([w EXCEPT !.s.currentChart = chart])

----------------------------------------------------------------------------
(* geoApi.chat and sendMessage *)

\* the answer geoApi.chat makes up when the POST fails
FallbackResponse(query) ==
    [message |-> Some(FallbackText[query]), status |-> "error",
     map_layers |-> None, chart |-> None, map_action |-> None]

\* geoApi.chat without its try/catch: the failure is thrown to the caller,
\* whose try block ends as it does on a null body
chat_Rethrow(query, outcome) == outcome.data

\* geoApi.chat whose local answer carries an empty layer list
chat_FallbackWithLayers(query, outcome) ==
    IF outcome.ok
    THEN outcome.data
    ELSE Some([FallbackResponse(query) EXCEPT !.map_layers = Some(<<>>)])

\* geoApi.chat: the POST's body, or on a transport failure a local answer
chat(query, outcome) ==
    IF outcome.ok
    THEN outcome.data
    ELSE Some(FallbackResponse(query))

toMapLayer(layer) ==
    [id |-> layer.id, name |-> layer.id, type |-> layer.type,
     visible |-> TRUE, opacity |-> 100]

toMapLayers(wire) == [i \in 1..Len(wire) |-> toMapLayer(wire[i])]

RECURSIVE addLayers(_, _)
addLayers(w, ls) ==
    IF ls = <<>> THEN w ELSE addLayers(addLayer(w, Head(ls)), Tail(ls))

\* sendMessage up to its await
sendMessageStart(w, query) ==
    setLoading(
        addMessage(w, [role |-> "user", content |-> Some(query),
                       chart |-> None, mapAction |-> None, mapLayers |-> None]),
        TRUE)

FailedMessage ==
    [role |-> "assistant", content |-> Some(FailedText), chart |-> None,
     mapAction |-> None, mapLayers |-> None]

AssistantMessage(r) ==
    [role |-> "assistant",
     content |-> r.message,
     chart |-> r.chart,
     mapAction |-> r.map_action,
     mapLayers |-> IF r.map_layers = None THEN None
                   ELSE Some(toMapLayers(r.map_layers[1]))]

\* "Handle map layers": a full replace when the response has map_layers
ApplyLayers(w, r) ==
    IF r.map_layers # None
    THEN addLayers(clearLayers(w), toMapLayers(r.map_layers[1]))
    ELSE w

\* "Handle chart"
ApplyChart(w, r) == IF r.chart # None THEN setChart(w, r.chart) ELSE w

\* "Handle map action"
ApplyMapAction(w, r) ==
    IF r.map_action # None THEN setMapAction(w, r.map_action[1]) ELSE w

\* sendMessage's try block from the await's result on
TryBlock(w, r) ==
    ApplyMapAction(
        ApplyChart(ApplyLayers(addMessage(w, AssistantMessage(r)), r), r), r)

\* sendMessage with setLoading(false) at the end of the try block only
sendMessageResume_NoFinally(w, response) ==
    IF response = None
    THEN addMessage(w, FailedMessage)
    ELSE setLoading(TryBlock(w, response[1]), FALSE)

\* sendMessage adding the returned layers without clearLayers()
sendMessageResume_Merge(w, response) ==
    IF response = None
    THEN setLoading(addMessage(w, FailedMessage), FALSE)
    ELSE LET r == response[1]
             w1 == addMessage(w, AssistantMessage(r))
             w2 == IF r.map_layers # None
                   THEN addLayers(w1, toMapLayers(r.map_layers[1]))
                   ELSE w1
         IN  setLoading(ApplyMapAction(ApplyChart(w2, r), r), FALSE)

\* sendMessage whose catch block only logs
sendMessageResume_SilentCatch(w, response) ==
    IF response = None
    THEN setLoading(w, FALSE)
    ELSE setLoading(TryBlock(w, response[1]), FALSE)

\* sendMessage setting the chart only when none is shown
sendMessageResume_KeepChart(w, response) ==
    IF response = None
    THEN setLoading(addMessage(w, FailedMessage), FALSE)
    ELSE LET r == response[1]
             w2 == ApplyLayers(addMessage(w, AssistantMessage(r)), r)
             w3 == IF w2.s.currentChart = None THEN ApplyChart(w2, r) ELSE w2
         IN  setLoading(ApplyMapAction(w3, r), FALSE)

\* sendMessage clearing the layers when the response has no map_layers
sendMessageResume_ClearWhenAbsent(w, response) ==
    IF response = None
    THEN setLoading(addMessage(w, FailedMessage), FALSE)
    ELSE LET r == response[1]
             w1 == addMessage(w, AssistantMessage(r))
             w2 == IF r.map_layers # None THEN ApplyLayers(w1, r) ELSE clearLayers(w1)
         IN  setLoading(ApplyMapAction(ApplyChart(w2, r), r), FALSE)

\* sendMessage also moving the view when the response has a map action
sendMessageResume_MoveView(w, response) ==
    IF response = None
    THEN setLoading(addMessage(w, FailedMessage), FALSE)
    ELSE LET r == response[1]
             w1 == TryBlock(w, r)
             w2 == IF r.map_action # None THEN setViewState(w1, [zoom |-> 12]) ELSE w1
         IN  setLoading(w2, FALSE)

\* sendMessage from the await's result to the end of its finally block;
\* reading response.message of a null body throws into the catch block
sendMessageResume(w, response) ==
    IF response = None
    THEN setLoading(addMessage(w, FailedMessage), FALSE)
    ELSE setLoading(TryBlock(w, response[1]), FALSE)

----------------------------------------------------------------------------
(* The chat panel's handleSend *)

\* input.trim(): the pieces without the white space at both ends
trim(input) ==
    LET RECURSIVE trimStart(_), trimEnd(_)
        trimStart(i) ==
            IF i # <<>> /\ Head(i) = Blank THEN trimStart(Tail(i)) ELSE i
        trimEnd(i) ==
            IF i # <<>> /\ i[Len(i)] = Blank
            THEN trimEnd(SubSeq(i, 1, Len(i) - 1))
            ELSE i
    IN  trimEnd(trimStart(input))

\* the string of a trimmed input of one piece, "" of an empty one
Text(pieces) == IF pieces = <<>> THEN "" ELSE pieces[1]

PanelFailedText ==
    "Sorry, there was an error processing your request. Please make sure the backend server is running at http://localhost:8000"

\* handleSend up to its await; isLoading is the value the panel was last
\* rendered with, which is the store's when a handler runs
handleSendStart(w, input) ==
    IF Text(trim(input)) = "" \/ w.s.isLoading
    THEN w
    ELSE setLoading(
             addMessage(w, [role |-> "user", content |-> Some(Text(trim(input))),
                            chart |-> None, mapAction |-> None, mapLayers |-> None]),
             TRUE)

PanelFailedMessage ==
    [role |-> "assistant", content |-> Some(PanelFailedText), chart |-> None,
     mapAction |-> None, mapLayers |-> None]

PanelMessage(r) ==
    [role |-> "assistant",
     content |-> r.message,
     code |-> Field(r, "code"),
     mapLayers |-> r.map_layers,
     data |-> Field(r, "data"),
     chart |-> r.chart,
     mapAction |-> r.map_action]

\* "Clear existing layers and add new ones"
PanelLayers(w, r) ==
    IF r.map_layers # None /\ Len(r.map_layers[1]) > 0
    THEN addLayers(clearLayers(w), toMapLayers(r.map_layers[1]))
    ELSE w

\* "Handle map action (flyTo, fitBounds, etc.)"
PanelMapAction(w, r) ==
    IF r.map_action = None THEN w
    ELSE LET a == r.map_action[1]
             w1 == IF a.type = "flyTo" /\ Field(a, "center") # None
                   THEN setViewState(w,
                            [longitude |-> Field(a, "center")[1][1],
                             latitude |-> Field(a, "center")[1][2],
                             zoom |-> OrDefault(Field(a, "zoom"), 12),
                             pitch |-> OrDefault(Field(a, "pitch"), 0),
                             bearing |-> OrDefault(Field(a, "bearing"), 0)])
                   ELSE w
         IN  setMapAction(w1, a)

\* handleSend from the await's result to the end of its finally block
handleSendResume(w, response) ==
    IF response = None
    THEN setLoading(addMessage(w, PanelFailedMessage), FALSE)
    ELSE LET r == response[1]
         IN  setLoading(
                 ApplyChart(
                     PanelMapAction(PanelLayers(addMessage(w, PanelMessage(r)), r), r),
                     r),
                 FALSE)

----------------------------------------------------------------------------
(* ChatWebSocket.  A chain is one connect() call and the reconnections      *)
(* that follow the closes of its sockets; sockets[c] is the chain's        *)
(* current socket (connecting, open, closing), its pending reconnect       *)
(* timer, or dead.  ws is the chain of the socket this.ws refers to, 0     *)
(* for null.  made counts the sockets created by reconnect timers since    *)
(* the last onopen; it is history, not a field of the class, and stops      *)
(* counting at maxReconnectAttempts + MaxConnects.                         *)

maxReconnectAttempts == 5

BackoffMs == 2000

Chains == 1..MaxConnects

InitChannel ==
    [ws |-> 0, messageHandler |-> FALSE, reconnectAttempts |-> 0,
     sockets |-> [c \in Chains |-> [st |-> "unused", delay |-> 0]],
     made |-> 0]

\* connect(onMessage): the handler is kept, a new socket is created
connect(ch, c) ==
    [ch EXCEPT !.messageHandler = TRUE, !.ws = c,
               !.sockets[c] = [st |-> "connecting", delay |-> 0]]

\* attemptReconnect that does not count its attempts
attemptReconnect_NoCount(ch, c) ==
    IF ch.reconnectAttempts < maxReconnectAttempts /\ ch.messageHandler
    THEN [ch EXCEPT !.sockets[c] =
                        [st |-> "timer", delay |-> BackoffMs * (ch.reconnectAttempts + 1)]]
    ELSE [ch EXCEPT !.sockets[c] = [st |-> "dead", delay |-> 0]]

\* attemptReconnect(), called by the onclose of chain c's socket
attemptReconnect(ch, c) ==
    IF ch.reconnectAttempts < maxReconnectAttempts /\ ch.messageHandler
    THEN [ch EXCEPT !.reconnectAttempts = @ + 1,
                    !.sockets[c] =
                        [st |-> "timer", delay |-> BackoffMs * (ch.reconnectAttempts + 1)]]
    ELSE [ch EXCEPT !.sockets[c] = [st |-> "dead", delay |-> 0]]

\* disconnect(): this.ws.close() and this.ws = null; close() on a socket
\* that has closed already does nothing
disconnect(ch) ==
    IF ch.ws = 0 THEN ch
    ELSE [ch EXCEPT !.ws = 0,
                    !.sockets[ch.ws].st =
                        IF @ \in {"connecting", "open"} THEN "closing" ELSE @]

----------------------------------------------------------------------------
(* MapView: the popup of a clicked feature *)

\* the truth value JavaScript gives an optional string
TruthyString(v) == v # None /\ v[1] # ""

NoProperties ==
    [type |-> None, glacier_type |-> None, discharge |-> None,
     lake_type |-> None, population |-> None]

\* onClick's "Determine feature type"
featureType(props) ==
    IF props.type = Some("glacier") \/ TruthyString(props.glacier_type) THEN "glacier"
    ELSE IF props.type = Some("river") \/ TruthyNumber(props.discharge) THEN "river"
    ELSE IF props.type = Some("lake") \/ TruthyString(props.lake_type) THEN "lake"
    ELSE IF TruthyNumber(props.population) THEN "city"
    ELSE "generic"

\* onClick from its first feature on
onClick(feature, lngLat) ==
    LET props == IF feature.properties = None THEN NoProperties
                 ELSE feature.properties[1]
    IN  Some([type |-> featureType(props), coordinates |-> lngLat,
              properties |-> props])

\* feature.properties?.name
hoverName(feature) ==
    IF feature.properties = None THEN None
    ELSE Field(feature.properties[1], "name")

----------------------------------------------------------------------------
(* MapView: rendering.  A primitive is a <Layer> element: its id (layer id *)
(* and suffix), its type and the opacity channel of its paint.  A layer's  *)
(* opacity and a descriptor's opacity are in percent (1.0 = 100); the      *)
(* opacity a primitive is given is in hundredths of a percent              *)
(* (1.0 = 10000), so that the product of two opacities is exact.           *)

\* layer.paint?.[name]
Paint(layer, name) ==
    IF Field(layer, "paint") = None THEN None
    ELSE Field(Field(layer, "paint")[1], name)

renderExtrusion(layer) ==
    << [id |-> <<layer.id, "extrusion">>, type |-> "fill-extrusion",
        opacity |-> Some(100 * OrDefault(Paint(layer, "fill-extrusion-opacity"), 80))] >>

renderHeatmap(layer) ==
    << [id |-> <<layer.id, "heat">>, type |-> "heatmap",
        opacity |-> Some(100 * OrDefault(Paint(layer, "heatmap-opacity"), 80))] >>

renderCircle(layer) ==
    << [id |-> <<layer.id, "circle">>, type |-> "circle",
        opacity |-> Some(100 * OrDefault(Some(layer.opacity), 100))],
       [id |-> <<layer.id, "label">>, type |-> "symbol", opacity |-> None] >>

renderLine(layer) ==
    << [id |-> <<layer.id, "line">>, type |-> "line",
        opacity |-> Some(100 * OrDefault(Some(layer.opacity), 100))] >>

\* the default case without the outline
renderGeojson_FillOnly(layer) ==
    << [id |-> <<layer.id, "fill">>, type |-> "fill",
        opacity |-> Some(OrDefault(Paint(layer, "fill-opacity"), 30) * layer.opacity)] >>

\* case 'geojson' and default
renderGeojson(layer) ==
    << [id |-> <<layer.id, "fill">>, type |-> "fill",
        opacity |-> Some(OrDefault(Paint(layer, "fill-opacity"), 30) * layer.opacity)],
       [id |-> <<layer.id, "outline">>, type |-> "line",
        opacity |-> Some(100 * layer.opacity)] >>

\* the defaults of the numeric paint fields, per case of the switch
\* (opacities in percent)
PaintDefaults(type) ==
    IF type = "fill-extrusion"
    THEN ("fill-extrusion-base" :> 0) @@ ("fill-extrusion-opacity" :> 80)
    ELSE IF type = "heatmap"
    THEN ("heatmap-weight" :> 1) @@ ("heatmap-intensity" :> 1)
             @@ ("heatmap-radius" :> 20) @@ ("heatmap-opacity" :> 80)
    ELSE IF type = "circle"
    THEN ("circle-radius" :> 8) @@ ("circle-stroke-width" :> 2)
    ELSE IF type = "line" THEN ("line-width" :> 3)
    ELSE ("fill-opacity" :> 30)

\* the numeric paint fields taken from the descriptor in the paint prop of
\* the first <Layer> of a visible layer: layer.paint?.[name] || default,
\* and for the fill that value times layer.opacity; the opacities are in
\* hundredths of a percent
renderPaint(layer) ==
    [n \in DOMAIN PaintDefaults(layer.type) |->
        LET value == OrDefault(Paint(layer, n), PaintDefaults(layer.type)[n])
        IN  IF n = "fill-opacity" THEN value * layer.opacity
            ELSE IF n \in {"heatmap-opacity", "fill-extrusion-opacity"}
            THEN 100 * value
            ELSE value]

renderLayer(layer) ==
    IF ~layer.visible THEN <<>>
    ELSE IF layer.type = "fill-extrusion" THEN renderExtrusion(layer)
    ELSE IF layer.type = "heatmap" THEN renderHeatmap(layer)
    ELSE IF layer.type = "circle" THEN renderCircle(layer)
    ELSE IF layer.type = "line" THEN renderLine(layer)
    ELSE renderGeojson(layer)

\* layers.filter(l => l.visible).map(renderLayer): one entry per visible
\* layer, the primitives of its <Source>
RenderedLayers(layers) ==
    LET shown == SelectSeq(layers, LAMBDA l : l.visible)
    IN  [i \in 1..Len(shown) |-> [id |-> shown[i].id, primitives |-> renderLayer(shown[i])]]

----------------------------------------------------------------------------
(* The state machine *)

Init ==
    /\ store = InitStore
    /\ obs = InitObs
    /\ camera = <<>>
    /\ enqueued = <<>>
    /\ calls = [c \in CallIds |-> [pc |-> "idle", query |-> None, outcome |-> None]]
    /\ log = <<>>
    /\ now = 0
    /\ channel = InitChannel
    /\ popupData = None
    /\ hoveredFeature = None
    /\ sends = [c \in CallIds |-> [pc |-> "idle", query |-> None, outcome |-> None]]

\* the store and what its listeners did, after a mutation
Apply(w) ==
    /\ store' = w.s
    /\ obs' = w.o
    /\ camera' = w.cam
    /\ enqueued' = w.enq

Commit(w) ==
    /\ Apply(w)
    /\ UNCHANGED <<now, channel, popupData, hoveredFeature, sends>>

\* a panel calls sendMessage(query); it runs to the await of geoApi.chat
SendMessage(c, query) ==
    /\ calls[c].pc = "idle"
    /\ \A d \in CallIds : d < c => calls[d].pc # "idle"
    /\ Commit(sendMessageStart(World, query))
    /\ calls' = [calls EXCEPT ![c] = [pc |-> "waiting", query |-> Some(query),
                                      outcome |-> None]]
    /\ log' = Append(log, <<"start", c>>)

\* the POST of call c completes and sendMessage runs to its end
Settle(c, outcome) ==
    /\ calls[c].pc = "waiting"
    /\ LET r == chat(calls[c].query[1], outcome)
       IN  Commit(sendMessageResume(World, r))
    /\ calls' = [calls EXCEPT ![c].pc = "done", ![c].outcome = Some(outcome)]
    /\ log' = Append(log, <<"settle", c>>)

\* the send button or Enter in the chat panel: handleSend returns at once
\* on a blank input or while isLoading, else runs to the await
HandleSend(c, input) ==
    /\ sends[c].pc = "idle"
    /\ \A d \in CallIds : d < c => sends[d].pc # "idle"
    /\ Apply(handleSendStart(World, input))
    /\ sends' = IF Text(trim(input)) = "" \/ store.isLoading
                THEN sends
                ELSE [sends EXCEPT ![c] = [pc |-> "waiting",
                                           query |-> Some(Text(trim(input))),
                                           outcome |-> None]]
    /\ UNCHANGED <<calls, log, now, channel, popupData, hoveredFeature>>

\* the POST of handleSend call c completes and handleSend runs to its end
SettleSend(c, outcome) ==
    /\ sends[c].pc = "waiting"
    /\ Apply(handleSendResume(World, chat(sends[c].query[1], outcome)))
    /\ sends' = [sends EXCEPT ![c].pc = "done", ![c].outcome = Some(outcome)]
    /\ UNCHANGED <<calls, log, now, channel, popupData, hoveredFeature>>

AddLayer(layer) ==
    /\ Commit(addLayer(World, layer))
    /\ UNCHANGED <<calls, log>>

RemoveLayer(layerId) ==
    /\ Commit(removeLayer(World, layerId))
    /\ UNCHANGED <<calls, log>>

ClearLayers ==
    /\ Commit(clearLayers(World))
    /\ UNCHANGED <<calls, log>>

ToggleLayerVisibility(layerId) ==
    /\ Commit(toggleLayerVisibility(World, layerId))
    /\ UNCHANGED <<calls, log>>

SetLayerOpacity(layerId, opacity) ==
    /\ Commit(setLayerOpacity(World, layerId, opacity))
    /\ UNCHANGED <<calls, log>>

SetMapAction(a) ==
    /\ Len(enqueued) < MaxRefs
    /\ Commit(setMapAction(World, a))
    /\ UNCHANGED <<calls, log>>

\* the subscription made with fireImmediately: the listener runs at once
Subscribe_FireImmediately ==
    /\ ~obs.subscribed
    /\ obs.epoch < MaxSubs
    /\ Commit(listener([World EXCEPT !.o.subscribed = TRUE,
                                     !.o.slice = store.pendingMapAction,
                                     !.o.epoch = @ + 1],
                       store.pendingMapAction))
    /\ UNCHANGED <<calls, log>>

\* MapView's effect: useAppStore.subscribe(selector, listener), no
\* fireImmediately: the slice seen so far is the current one
Subscribe ==
    /\ ~obs.subscribed
    /\ obs.epoch < MaxSubs
    /\ obs' = [obs EXCEPT !.subscribed = TRUE,
                          !.slice = store.pendingMapAction,
                          !.epoch = @ + 1]
    /\ UNCHANGED <<store, camera, enqueued, calls, log, now, channel, popupData, hoveredFeature, sends>>

\* the effect's cleanup
Unsubscribe ==
    /\ obs.subscribed
    /\ obs' = [obs EXCEPT !.subscribed = FALSE]
    /\ UNCHANGED <<store, camera, enqueued, calls, log, now, channel, popupData, hoveredFeature, sends>>

\* the map engine instance becomes available to mapRef, or goes away
\* the sidebar's handle, its panel tabs, and the chat panel's code and
\* chart switches
ToggleSidebar ==
    /\ Commit(notify([World EXCEPT !.s.isSidebarOpen = ~@]))
    /\ UNCHANGED <<calls, log>>

SetActivePanel(panel) ==
    /\ Commit(notify([World EXCEPT !.s.activePanel = panel]))
    /\ UNCHANGED <<calls, log>>

ToggleCode ==
    /\ Commit(notify([World EXCEPT !.s.showCode = ~@]))
    /\ UNCHANGED <<calls, log>>

ToggleChart ==
    /\ Commit(notify([World EXCEPT !.s.showChart = ~@]))
    /\ UNCHANGED <<calls, log>>

\* MapView's "Fly to Kazakhstan" button: mapRef.current?.flyTo(...), a
\* command of no action object (ref 0); at most MaxRefs of them
FlyToKazakhstan ==
    /\ Cardinality({ i \in 1..Len(camera) : camera[i].ref = 0 }) < MaxRefs
    /\ camera' = IF obs.mapRef
                 THEN Append(camera,
                        [ref |-> 0, cmd |-> "flyTo",
                         options |-> [center |-> <<67, 48>>, zoom |-> 4,
                                      pitch |-> IF store.is3DEnabled THEN 45 ELSE 0,
                                      duration |-> 2000]])
                 ELSE camera
    /\ UNCHANGED <<store, obs, enqueued, calls, log, now, channel, popupData, hoveredFeature, sends>>

MapRefAttach ==
    /\ ~obs.mapRef
    /\ obs' = [obs EXCEPT !.mapRef = TRUE]
    /\ UNCHANGED <<store, camera, enqueued, calls, log, now, channel, popupData, hoveredFeature, sends>>

MapRefDetach ==
    /\ obs.mapRef
    /\ obs' = [obs EXCEPT !.mapRef = FALSE]
    /\ UNCHANGED <<store, camera, enqueued, calls, log, now, channel, popupData, hoveredFeature, sends>>

ClearMessages ==
    /\ Commit(clearMessages(World))
    /\ UNCHANGED <<calls, log>>

\* the store's setChart called on its own: the chart panel's close button
\* calls setChart(null)
SetChart(chart) ==
    /\ Commit(setChart(World, chart))
    /\ UNCHANGED <<calls, log>>

\* the map's onMove handler
OnMove(viewState) ==
    /\ Commit(setViewState(World, viewState))
    /\ UNCHANGED <<calls, log>>

ZoomIn ==
    /\ store.viewState.zoom < MaxZoom
    /\ Commit(setViewState(World, [zoom |-> store.viewState.zoom + 1]))
    /\ UNCHANGED <<calls, log>>

\* zoomOut with the floor one step lower
ZoomOut_FloorBelow ==
    /\ Commit(setViewState(World,
                [zoom |-> IF store.viewState.zoom - 1 > -1
                          THEN store.viewState.zoom - 1 ELSE -1]))
    /\ UNCHANGED <<calls, log>>

ZoomOut ==
    /\ Commit(setViewState(World,
                [zoom |-> IF store.viewState.zoom - 1 > 0
                          THEN store.viewState.zoom - 1 ELSE 0]))
    /\ UNCHANGED <<calls, log>>

ResetView ==
    /\ Commit(setViewState(World, [bearing |-> 0, pitch |-> 0]))
    /\ UNCHANGED <<calls, log>>

SetBasemap(basemapId) ==
    /\ Commit(setBasemap(World, basemapId))
    /\ UNCHANGED <<calls, log>>

Toggle3D ==
    /\ Commit(toggle3D(World))
    /\ UNCHANGED <<calls, log>>

\* sendMessage statement by statement.  JavaScript runs a call from its
\* start to the await, and from the await's result to the end, without
\* letting anything else in: other steps wait until no call is in between.
Quiet == \A c \in CallIds : calls[c].pc \in {"idle", "waiting", "done"}

\* the response the try block of call c is working with
ResponseOf(c) == chat(calls[c].query[1], calls[c].outcome[1])[1]

\* state.addMessage({ role: 'user', content: query })
CallAddUserMessage(c, query) ==
    /\ Quiet
    /\ calls[c].pc = "idle"
    /\ \A d \in CallIds : d < c => calls[d].pc # "idle"
    /\ Commit(addMessage(World, [role |-> "user", content |-> Some(query),
                                 chart |-> None, mapAction |-> None,
                                 mapLayers |-> None]))
    /\ calls' = [calls EXCEPT ![c].pc = "userAdded", ![c].query = Some(query)]
    /\ log' = Append(log, <<"user", c>>)

\* state.setLoading(true)
CallSetLoading(c) ==
    /\ calls[c].pc = "userAdded"
    /\ Commit(setLoading(World, TRUE))
    /\ calls' = [calls EXCEPT ![c].pc = "loadingOn"]
    /\ log' = Append(log, <<"loadingOn", c>>)

\* geoApi.chat issuing the POST with no user message appended
CallChat_BeforeUserMessage(c) ==
    /\ Quiet
    /\ calls[c].pc = "idle"
    /\ calls' = [calls EXCEPT ![c].pc = "waiting", ![c].query = Some("show fires")]
    /\ log' = Append(log, <<"invoke", c>>)
    /\ UNCHANGED <<store, obs, camera, enqueued, now, channel, popupData, hoveredFeature, sends>>

\* geoApi.chat({ query }) issues the POST; the call awaits
CallChat(c) ==
    /\ calls[c].pc = "loadingOn"
    /\ calls' = [calls EXCEPT ![c].pc = "waiting"]
    /\ log' = Append(log, <<"invoke", c>>)
    /\ UNCHANGED <<store, obs, camera, enqueued, now, channel, popupData, hoveredFeature, sends>>

\* the await's result: the assistant message of the try block, or on a
\* null body the throw and the message of the catch block
CallAddAssistantMessage(c, outcome) ==
    /\ Quiet
    /\ calls[c].pc = "waiting"
    /\ LET r == chat(calls[c].query[1], outcome)
       IN  IF r = None
           THEN /\ Commit(addMessage(World, FailedMessage))
                /\ calls' = [calls EXCEPT ![c].pc = "applied",
                                          ![c].outcome = Some(outcome)]
           ELSE /\ Commit(addMessage(World, AssistantMessage(r[1])))
                /\ calls' = [calls EXCEPT ![c].pc = "answered",
                                          ![c].outcome = Some(outcome)]
    /\ log' = Append(log, <<"assistant", c>>)

CallHandleLayers(c) ==
    /\ calls[c].pc = "answered"
    /\ Commit(ApplyLayers(World, ResponseOf(c)))
    /\ calls' = [calls EXCEPT ![c].pc = "layersHandled"]
    /\ log' = Append(log, <<"layers", c>>)

CallHandleChart(c) ==
    /\ calls[c].pc = "layersHandled"
    /\ Commit(ApplyChart(World, ResponseOf(c)))
    /\ calls' = [calls EXCEPT ![c].pc = "chartHandled"]
    /\ log' = Append(log, <<"chart", c>>)

CallHandleMapAction(c) ==
    /\ calls[c].pc = "chartHandled"
    /\ Commit(ApplyMapAction(World, ResponseOf(c)))
    /\ calls' = [calls EXCEPT ![c].pc = "applied"]
    /\ log' = Append(log, <<"mapAction", c>>)

\* finally: state.setLoading(false)
CallFinally(c) ==
    /\ calls[c].pc = "applied"
    /\ Commit(setLoading(World, FALSE))
    /\ calls' = [calls EXCEPT ![c].pc = "done"]
    /\ log' = Append(log, <<"loadingOff", c>>)

\* a caller calls chatWebSocket.connect(onMessage)
Connect(c) ==
    /\ channel.sockets[c].st \in {"unused", "dead"}
    /\ channel' = connect(channel, c)
    /\ UNCHANGED <<app, now, popupData, hoveredFeature, sends>>

\* ws.onopen
OnOpen(c) ==
    /\ channel.sockets[c].st = "connecting"
    /\ channel' = [channel EXCEPT !.sockets[c].st = "open",
                                  !.reconnectAttempts = 0,
                                  !.made = 0]
    /\ UNCHANGED <<app, now, popupData, hoveredFeature, sends>>

\* ws.onclose: the connection failed, was lost, or close() has completed
OnClose(c) ==
    /\ channel.sockets[c].st \in {"connecting", "open", "closing"}
    /\ channel' = attemptReconnect(channel, c)
    /\ UNCHANGED <<app, now, popupData, hoveredFeature, sends>>

\* the setTimeout callback of attemptReconnect: this.connect(this.messageHandler)
ReconnectTimer(c) ==
    /\ channel.sockets[c].st = "timer"
    /\ channel' = [connect(channel, c) EXCEPT
                       !.made = IF @ < maxReconnectAttempts + MaxConnects
                                THEN @ + 1 ELSE @]
    /\ UNCHANGED <<app, now, popupData, hoveredFeature, sends>>

Disconnect ==
    /\ channel' = disconnect(channel)
    /\ UNCHANGED <<app, now, popupData, hoveredFeature, sends>>

\* a click on the map; features are the rendered features under it
OnClick(features, lngLat) ==
    /\ popupData' = IF Len(features) > 0 THEN onClick(features[1], lngLat)
                    ELSE popupData
    /\ UNCHANGED <<app, now, channel, hoveredFeature, sends>>

ClosePopup ==
    /\ popupData' = None
    /\ UNCHANGED <<app, now, channel, hoveredFeature, sends>>

\* a mouse move that also closes the popup
OnMouseMove_ClosePopup(features) ==
    /\ hoveredFeature' =
          IF Len(features) > 0
          THEN IF TruthyString(hoverName(features[1])) THEN hoverName(features[1])
               ELSE hoveredFeature
          ELSE None
    /\ popupData' = None
    /\ UNCHANGED <<app, now, channel, sends>>

\* onMouseMove, the tooltip: the name of the first feature if it has one,
\* null when there is no feature (the cursor position is left out)
OnMouseMove(features) ==
    /\ hoveredFeature' =
          IF Len(features) > 0
          THEN IF TruthyString(hoverName(features[1])) THEN hoverName(features[1])
               ELSE hoveredFeature
          ELSE None
    /\ UNCHANGED <<app, now, channel, popupData, sends>>

\* a millisecond passes
Tick ==
    /\ now < MaxNow
    /\ now' = now + 1
    /\ UNCHANGED <<app, channel, popupData, hoveredFeature, sends>>

\* the chat dispatcher with the panels' layer edits in between
Next ==
    \/ \E c \in CallIds, q \in Queries : SendMessage(c, q)
    \/ \E c \in CallIds, o \in Outcomes : Settle(c, o)
    \/ \E l \in ManualLayers : AddLayer(l)
    \/ \E id \in {"air"} : RemoveLayer(id)
    \/ \E id \in {"air"} : ToggleLayerVisibility(id)

Spec == Init /\ [][Next]_vars

\* the map-action queue: producers, the map surface's observer, the engine
NextMapAction ==
    \/ \E c \in {1}, q \in {"show fires"} : SendMessage(c, q)
    \/ \E c \in {1}, o \in ActionOutcomes : Settle(c, o)
    \/ \E a \in WireActions : SetMapAction(a)
    \/ AddLayer(toMapLayer(WireAir))
    \/ Subscribe
    \/ Unsubscribe
    \/ MapRefAttach
    \/ MapRefDetach

SpecMapAction == Init /\ [][NextMapAction]_vars

\* the application once MapView is mounted: its effect has subscribed the
\* observer, the map engine instance arrives later
InitMounted ==
    /\ store = InitStore
    /\ obs = [InitObs EXCEPT !.subscribed = TRUE, !.epoch = 1]
    /\ camera = <<>>
    /\ enqueued = <<>>
    /\ calls = [c \in CallIds |-> [pc |-> "idle", query |-> None, outcome |-> None]]
    /\ log = <<>>
    /\ now = 0
    /\ channel = InitChannel
    /\ popupData = None
    /\ hoveredFeature = None
    /\ sends = [c \in CallIds |-> [pc |-> "idle", query |-> None, outcome |-> None]]

NextMounted ==
    \/ \E c \in {1}, q \in {"show fires"} : SendMessage(c, q)
    \/ \E c \in {1}, o \in ActionOutcomes : Settle(c, o)
    \/ \E a \in WireActions : SetMapAction(a)
    \/ AddLayer(toMapLayer(WireAir))
    \/ MapRefAttach
    \/ MapRefDetach

SpecMounted == InitMounted /\ [][NextMounted]_vars

\* a response that carries code, layers, a chart and a map action
FullResponse ==
    [code |-> Some("df.plot()")] @@
    Response(Some("ok"), Some(<<WireAir>>), Some("bar"), Some(FlyTo))

\* a body without the message field that still carries layers and a chart
NoMessageResponse == Response(None, Some(<<WireAir>>), Some("bar"), None)

MessageOutcomes ==
    {TransportFailure, NullBody, [ok |-> TRUE, data |-> Some(FullResponse)],
     [ok |-> TRUE, data |-> Some(NoMessageResponse)]}

\* the message log: calls, the chat panel's clear button, layer edits
NextMessages ==
    \/ \E c \in CallIds : SendMessage(c, "show air quality")
    \/ \E c \in CallIds, o \in MessageOutcomes : Settle(c, o)
    \/ ClearMessages
    \/ SetChart(None)
    \/ AddLayer(toMapLayer(WireAirLine))
    \/ RemoveLayer("air")
    \/ ToggleLayerVisibility("air")

SpecMessages == Init /\ [][NextMessages]_vars

\* every POST settles: axios answers, fails or gives up at its timeout, and
\* the event loop then runs the continuation of the awaiting call
PostSettles == \A c \in CallIds : WF_vars(\E o \in MessageOutcomes : Settle(c, o))

SpecLive == Init /\ [][NextMessages]_vars /\ PostSettles

\* answers without a map action: a failed POST and a chart with no layers
WriteOutcomes ==
    {TransportFailure,
     [ok |-> TRUE, data |-> Some(Response(Some("ok"), Some(<<>>), Some("bar"), None))]}

\* the observer next to the writes of the other parts of the store
NextWrites ==
    \/ Subscribe
    \/ Unsubscribe
    \/ MapRefAttach
    \/ SetMapAction(FlyTo)
    \/ AddLayer(toMapLayer(WireAir))
    \/ RemoveLayer("air")
    \/ ToggleLayerVisibility("air")
    \/ ResetView
    \/ Toggle3D
    \/ SetBasemap("satellite")
    \/ SendMessage(1, "show fires")
    \/ \E o \in WriteOutcomes : Settle(1, o)

SpecWrites == Init /\ [][NextWrites]_vars

\* calls taken statement by statement, with the clear button and a layer
\* edit between their synchronous parts
NextSteps ==
    \/ \E c \in CallIds, q \in Queries : CallAddUserMessage(c, q)
    \/ \E c \in CallIds : CallSetLoading(c)
    \/ \E c \in CallIds : CallChat(c)
    \/ \E c \in CallIds, o \in MessageOutcomes : CallAddAssistantMessage(c, o)
    \/ \E c \in CallIds : CallHandleLayers(c)
    \/ \E c \in CallIds : CallHandleChart(c)
    \/ \E c \in CallIds : CallHandleMapAction(c)
    \/ \E c \in CallIds : CallFinally(c)
    \/ Quiet /\ ClearMessages
    \/ Quiet /\ ToggleLayerVisibility("air")

SpecSteps == Init /\ [][NextSteps]_vars

\* the chat calls on the clock that gives the messages their ids
NextIds ==
    \/ \E c \in CallIds : SendMessage(c, "show fires")
    \/ \E c \in CallIds, o \in MessageOutcomes : Settle(c, o)
    \/ ClearMessages
    \/ Tick

SpecIds == Init /\ [][NextIds]_vars

\* the realtime channel: callers, socket events and reconnect timers
NextChannel ==
    \/ \E c \in Chains : Connect(c)
    \/ \E c \in Chains : OnOpen(c)
    \/ \E c \in Chains : OnClose(c)
    \/ \E c \in Chains : ReconnectTimer(c)
    \/ Disconnect

SpecChannel == Init /\ [][NextChannel]_vars

\* a reconnect timer fires, a connecting socket opens or closes, and a
\* close() completes
ChannelProgress ==
    \A c \in Chains :
        /\ WF_vars(ReconnectTimer(c))
        /\ WF_vars(/\ channel.sockets[c].st \in {"connecting", "closing"}
                   /\ (OnOpen(c) \/ OnClose(c)))

SpecChannelLive == SpecChannel /\ ChannelProgress

\* clicks on the map and the popup's close button
NextPopup ==
    \/ \E f \in Features, ll \in LngLats : OnClick(<<f>>, ll)
    \/ \E ll \in LngLats : OnClick(<<>>, ll)
    \/ \E f \in HoverFeatures : OnMouseMove(<<f>>)
    \/ OnMouseMove(<<>>)
    \/ ClosePopup

SpecPopup == InitMounted /\ [][NextPopup]_vars

\* the layers the map surface renders, the layer panel's eye and slider
NextRender ==
    \/ \E l \in RenderLayers : AddLayer(l)
    \/ \E id \in {"a", "b"} : RemoveLayer(id)
    \/ \E id \in {"a", "b"} : ToggleLayerVisibility(id)
    \/ \E id \in {"a", "b"}, o \in SliderOpacities : SetLayerOpacity(id, o)

SpecRender == InitMounted /\ [][NextRender]_vars

\* one layer with a paint descriptor, the layer panel's eye and slider
NextPaint ==
    \/ \E l \in PaintLayers : AddLayer(l)
    \/ ToggleLayerVisibility("p")
    \/ \E o \in SliderOpacities : SetLayerOpacity("p", o)

SpecPaint == InitMounted /\ [][NextPaint]_vars

\* the mounted map surface given actions with camera options
NextCamera ==
    \/ \E a \in CameraActions : SetMapAction(a)
    \/ MapRefAttach
    \/ MapRefDetach

SpecCamera == InitMounted /\ [][NextCamera]_vars

\* responses that have at most one of the optional fields
OptionalOutcomes ==
    { [ok |-> TRUE, data |-> Some(r)] :
          r \in { Response(Some("ok"), None, None, None),
                  Response(Some("ok"), Some(<<WireFire>>), None, None),
                  Response(Some("ok"), None, Some("line"), None),
                  Response(Some("ok"), None, Some("bar"), None),
                  Response(Some("ok"), None, None, Some(FitBounds)) } }

\* calls answered with few fields, next to layer edits and a map action
\* nobody consumes (no observer is subscribed)
NextOptional ==
    \/ \E c \in CallIds : SendMessage(c, "show fires")
    \/ \E c \in CallIds, o \in OptionalOutcomes : Settle(c, o)
    \/ AddLayer(toMapLayer(WireAir))
    \/ ToggleLayerVisibility("air")
    \/ SetMapAction(FlyTo)
    \/ SetChart(None)

SpecOptional == Init /\ [][NextOptional]_vars

\* the map controls: camera, basemap and 3D mode
NextView ==
    \/ \E v \in MovedViews : OnMove(v)
    \/ ZoomIn
    \/ ZoomOut
    \/ ResetView
    \/ \E b \in BasemapIds : SetBasemap(b)
    \/ Toggle3D
    \/ FlyToKazakhstan
    \/ MapRefAttach
    \/ MapRefDetach

SpecView == InitMounted /\ [][NextView]_vars

\* responses to the calls made next to the map controls
ControlOutcomes ==
    {TransportFailure,
     [ok |-> TRUE,
      data |-> Some(Response(Some("ok"), Some(<<WireFire>>), Some("bar"), Some(FlyTo)))]}

\* the zoom, compass and 3D buttons, the basemap picker and the sidebar
\* used while calls are in flight, MapView being mounted
NextControls ==
    \/ \E c \in CallIds : SendMessage(c, "show fires")
    \/ \E c \in CallIds, o \in ControlOutcomes : Settle(c, o)
    \/ ZoomIn
    \/ ZoomOut
    \/ ResetView
    \/ Toggle3D
    \/ \E b \in BasemapIds : SetBasemap(b)
    \/ ToggleSidebar
    \/ \E p \in Panels : SetActivePanel(p)
    \/ ToggleCode
    \/ ToggleChart

SpecControls == InitMounted /\ [][NextControls]_vars

\* the layers addLayer is called with in the layer registry's specification
Addable == ManualLayers \cup {toMapLayer(WireAir), toMapLayer(WireFire)}

\* the layer registry alone
NextLayers ==
    \/ \E l \in Addable : AddLayer(l)
    \/ \E id \in LayerIds : RemoveLayer(id)
    \/ ClearLayers
    \/ \E id \in LayerIds : ToggleLayerVisibility(id)
    \/ \E id \in LayerIds : SetLayerOpacity(id, 50)

SpecLayers == Init /\ [][NextLayers]_vars

\* what the chat panel's calls are answered with: an empty layer list, a
\* layer with a chart and a flyTo, a fitBounds, or no body
PanelOutcomes ==
    {NullBody} \cup
    { [ok |-> TRUE, data |-> Some(r)] :
          r \in { Response(Some("ok"), Some(<<>>), None, None),
                  Response(Some("ok"), Some(<<WireFire>>), Some("bar"), Some(FlyToCenter)),
                  Response(Some("ok"), None, None, Some(FitBounds)) } }

\* the chat panel's handleSend next to the store's sendMessage, which
\* the other panels call
NextPanel ==
    \/ \E c \in CallIds, i \in Inputs : HandleSend(c, i)
    \/ \E c \in CallIds, o \in PanelOutcomes : SettleSend(c, o)
    \/ \E c \in CallIds : SendMessage(c, "show fires")
    \/ \E c \in CallIds : Settle(c, TransportFailure)

SpecPanel == Init /\ [][NextPanel]_vars

\* the registry written with opacities outside [0, 1], for ids with and
\* without a layer
NextOpacity ==
    \/ \E l \in ManualLayers : AddLayer(l)
    \/ \E id \in LayerIds : ToggleLayerVisibility(id)
    \/ \E id \in LayerIds, o \in StoredOpacities : SetLayerOpacity(id, o)

SpecOpacity == Init /\ [][NextOpacity]_vars

----------------------------------------------------------------------------
(* Vocabulary of the properties *)

Starting(c) == calls[c].pc = "idle" /\ calls'[c].pc = "waiting"

Settling(c) == calls[c].pc = "waiting" /\ calls'[c].pc = "done"

\* what geoApi.chat handed to a settled call
Answer(call) == chat(call.query[1], call.outcome[1])

HasLayers(call) == Answer(call) # None /\ Answer(call)[1].map_layers # None

HasChart(call) == Answer(call) # None /\ Answer(call)[1].chart # None

AnswerLayers(call) == toMapLayers(Answer(call)[1].map_layers[1])

\* the layers of ls whose id does not occur again later in ls, in order
LastOccurrences(ls) ==
    LET keep == { i \in 1..Len(ls) : \A j \in (i + 1)..Len(ls) : ls[j].id # ls[i].id }
        nth(k) == CHOOSE i \in keep : Cardinality({ j \in keep : j <= i }) = k
    IN  [k \in 1..Cardinality(keep) |-> ls[nth(k)]]

Position(e) == CHOOSE i \in 1..Len(log) : log[i] = e

Before(e, f) ==
    /\ \E i \in 1..Len(log) : log[i] = e
    /\ \E i \in 1..Len(log) : log[i] = f
    /\ Position(e) < Position(f)

Last(seq) == seq[Len(seq)]

IsFailureText(content) ==
    content = Some(FailedText) \/ \E q \in Queries : content = Some(FallbackText[q])

Commands(ref) == Cardinality({ i \in 1..Len(camera) : camera[i].ref = ref })

Consumptions(ref) ==
    Cardinality({ i \in 1..Len(obs.consumed) : obs.consumed[i].ref = ref })

WellFormed(a) == a.type = "flyTo" \/ (a.type = "fitBounds" /\ a.bounds # None)

IsPending(ref) ==
    store.pendingMapAction # None /\ store.pendingMapAction[1].ref = ref

----------------------------------------------------------------------------
(* Properties *)

\* C1: in the step in which a sendMessage call settles, whatever the
\* transport delivered (a response, an error-status or local answer, a null
\* body that makes the try block throw), isLoading is false afterwards.
C1_LoadingFalseWhenSettled ==
    [][\A c \in CallIds : Settling(c) => ~store'.isLoading]_vars

C1_Witness ==
    \E c, d \in CallIds :
        /\ calls[c].pc = "done" /\ calls[c].outcome = Some(NullBody)
        /\ calls[d].pc = "done" /\ calls[d].outcome = Some(TransportFailure)
        /\ ~store.isLoading

\* C2 as claimed: when the response of a settling call has map_layers, the
\* layer list becomes exactly the response's layers, one per entry, each
\* visible with opacity 1.
C2_ExactlyTheResponseLayers ==
    [][\A c \in CallIds :
          (Settling(c) /\ HasLayers(calls'[c]))
              => store'.layers = AnswerLayers(calls'[c])]_vars

\* C2 amended: when the response of a settling call has map_layers, the
\* layer list becomes the response's layers, each visible with opacity 1,
\* keeping of the entries that repeat an id only the last one; nothing of
\* the list held before or of the edits made in flight survives.
C2_FullReplaceKeepingLastOfAnId ==
    [][\A c \in CallIds :
          (Settling(c) /\ HasLayers(calls'[c]))
              => store'.layers = LastOccurrences(AnswerLayers(calls'[c]))]_vars

C2_Witness ==
    \E c, d \in CallIds :
        /\ calls[c].pc = "done" /\ calls[d].pc = "done"
        /\ HasLayers(calls[d]) /\ Len(AnswerLayers(calls[d])) = 2
        /\ HasLayers(calls[c]) /\ AnswerLayers(calls[c]) = <<>>
        /\ Before(<<"settle", d>>, <<"settle", c>>)
        /\ store.layers = <<>>

\* C3: while the observer is subscribed, a step that enqueues an action
\* (setMapAction with a non-null action, directly or by sendMessage) hands
\* exactly that action to the observer once and ends with the slot null;
\* a step that enqueues nothing hands nothing to the observer.
C3_ConsumedOnceThenNull ==
    [][/\ (obs.subscribed /\ Len(enqueued') = Len(enqueued) + 1)
           => /\ store'.pendingMapAction = None
              /\ obs'.consumed =
                    Append(obs.consumed,
                           [ref |-> Len(enqueued'), epoch |-> obs.epoch])
       /\ (enqueued' = enqueued) => obs'.consumed = obs.consumed]_vars

C3_Witness ==
    /\ obs.subscribed
    /\ Len(enqueued) = 2
    /\ Consumptions(1) = 1 /\ Consumptions(2) = 1
    /\ store.pendingMapAction = None
    /\ store.layers # <<>>

\* C4 as claimed: every enqueued flyTo or fitBounds action has exactly one
\* camera command: at most one ever, and one as soon as the action is no
\* longer the pending one.
C4_ExactlyOneCommandPerEnqueue ==
    \A ref \in 1..Len(enqueued) :
        WellFormed(enqueued[ref])
            => /\ Commands(ref) <= 1
               /\ ~IsPending(ref) => Commands(ref) = 1

\* C5: a step that subscribes the observer again issues no camera command,
\* hands nothing to the observer and leaves the slot as it was; the slot is
\* null when the action enqueued last had been consumed.
C5_NoReplayOnResubscribe ==
    [][(~obs.subscribed /\ obs'.subscribed)
          => /\ camera' = camera
             /\ obs'.consumed = obs.consumed
             /\ store'.pendingMapAction = store.pendingMapAction
             /\ (enqueued # <<>> /\ Consumptions(Len(enqueued)) = 1)
                    => store'.pendingMapAction = None]_vars

C5_Witness ==
    /\ obs.subscribed
    /\ enqueued # <<>>
    /\ \E i \in 1..Len(obs.consumed) :
           /\ obs.consumed[i].ref = Len(enqueued)
           /\ obs.consumed[i].epoch < obs.epoch
    /\ Commands(Len(enqueued)) = 1
    /\ store.pendingMapAction = None

\* the layers of ls other than the one with this id, in order
Others(ls, id) == SelectSeq(ls, LAMBDA l : l.id # id)

\* C6: an addLayer step makes the set of ids the old one plus the added id
\* and the count the number of distinct ids (unchanged when the id was
\* there), puts the added layer with its new content at the tail and keeps
\* the other layers and their order; a removeLayer step takes the id out
\* and the count is again the number of distinct ids.
C6_AddLayerIsUpsertWithReorder ==
    [][/\ \A layer \in Addable :
            AddLayer(layer)
                => /\ Ids(store'.layers) = Ids(store.layers) \cup {layer.id}
                   /\ Len(store'.layers) = Cardinality(Ids(store'.layers))
                   /\ layer.id \in Ids(store.layers)
                          => Len(store'.layers) = Len(store.layers)
                   /\ Last(store'.layers) = layer
                   /\ Others(store'.layers, layer.id) = Others(store.layers, layer.id)
       /\ \A id \in LayerIds :
            RemoveLayer(id)
                => /\ Ids(store'.layers) = Ids(store.layers) \ {id}
                   /\ Len(store'.layers) = Cardinality(Ids(store'.layers))]_vars

C6_Witness ==
    /\ Len(store.layers) = 3
    /\ store.layers[1].id = "glaciers" /\ ~store.layers[1].visible
    /\ store.layers[2].id = "fire" /\ store.layers[2].opacity = 50
    /\ store.layers[3] = toMapLayer(WireAir)

\* C7: no two layers of the layer list have the same id.
C7_LayerIdsUnique ==
    \A i, j \in 1..Len(store.layers) :
        i # j => store.layers[i].id # store.layers[j].id

C7_Witness ==
    /\ \E c \in CallIds :
           /\ calls[c].pc = "done"
           /\ HasLayers(calls[c])
           /\ Len(AnswerLayers(calls[c])) = 2
           /\ Cardinality(Ids(AnswerLayers(calls[c]))) = 1
    /\ store.layers = <<toMapLayer(WireAirLine)>>

\* C8: starting a call changes neither the layer list nor the chart, and
\* when the POST fails at the transport the call settles (it resolves),
\* again changes neither, and the newest message is an assistant message
\* whose text tells of the failure.
C8_UnreachableBackend ==
    [][\A c \in CallIds :
          /\ Starting(c)
                => /\ store'.layers = store.layers
                   /\ store'.currentChart = store.currentChart
          /\ (calls[c].pc = "waiting" /\ calls'[c].outcome = Some(TransportFailure))
                => /\ calls'[c].pc = "done"
                   /\ store'.layers = store.layers
                   /\ store'.currentChart = store.currentChart
                   /\ Last(store'.messages).role = "assistant"
                   /\ IsFailureText(Last(store'.messages).content)]_vars

C8_Witness ==
    /\ \E c \in CallIds :
           calls[c].pc = "done" /\ calls[c].outcome = Some(TransportFailure)
    /\ Len(store.layers) = 2
    /\ store.currentChart # None
    /\ Last(store.messages).role = "assistant"
    /\ IsFailureText(Last(store.messages).content)

\* the text of the single assistant message a settled call appends
ExpectedContent(call) ==
    IF call.outcome = Some(TransportFailure) THEN Some(FallbackText[call.query[1]])
    ELSE IF call.outcome = Some(NullBody) THEN Some(FailedText)
    ELSE call.outcome[1].data[1].message

\* C9: a call appends one user message holding the raw query when it
\* starts and one assistant message when it settles (the response text, or
\* one failure text), and nothing else: no other step changes the list.
C9_TwoMessagesPerCall ==
    [][/\ \A c \in CallIds :
            Starting(c)
                => /\ Len(store'.messages) = Len(store.messages) + 1
                   /\ SubSeq(store'.messages, 1, Len(store.messages)) = store.messages
                   /\ Last(store'.messages).role = "user"
                   /\ Last(store'.messages).content = calls'[c].query
       /\ \A c \in CallIds :
            Settling(c)
                => /\ Len(store'.messages) = Len(store.messages) + 1
                   /\ SubSeq(store'.messages, 1, Len(store.messages)) = store.messages
                   /\ Last(store'.messages).role = "assistant"
                   /\ Last(store'.messages).content = ExpectedContent(calls'[c])
       /\ (calls' = calls) => store'.messages = store.messages]_vars

C9_Witness ==
    /\ \A c \in CallIds : calls[c].pc = "done"
    /\ \E c \in CallIds : calls[c].outcome = Some(NullBody)
    /\ \E c \in CallIds : calls[c].outcome # None /\ calls[c].outcome[1].data # None
    /\ Len(store.messages) = 1 + 2 * MaxCalls

\* C10: when a call settles after another call that was in flight together
\* with it, and both answers carry layers and a chart, the layer list and
\* the chart are those of the call settling now (of repeated ids its last
\* entry, as in C2) and isLoading is false, whichever call started first.
C10_LastResponderWins ==
    [][\A c, d \in CallIds :
          (/\ c # d
           /\ Settling(c)
           /\ calls[d].pc = "done"
           /\ Before(<<"start", c>>, <<"settle", d>>)
           /\ HasLayers(calls'[c]) /\ HasChart(calls'[c])
           /\ HasLayers(calls[d]) /\ HasChart(calls[d]))
              => /\ store'.layers = LastOccurrences(AnswerLayers(calls'[c]))
                 /\ store'.currentChart = Answer(calls'[c])[1].chart
                 /\ ~store'.isLoading]_vars

C10_Witness ==
    /\ log = << <<"start", 1>>, <<"start", 2>>, <<"settle", 2>>, <<"settle", 1>> >>
    /\ HasLayers(calls[1]) /\ HasChart(calls[1])
    /\ HasLayers(calls[2]) /\ HasChart(calls[2])
    /\ Answer(calls[1])[1].chart # Answer(calls[2])[1].chart
    /\ AnswerLayers(calls[1]) = <<toMapLayer(WireAir)>>
    /\ Len(AnswerLayers(calls[2])) = 2
    /\ store.layers = <<toMapLayer(WireAir)>>
    /\ store.currentChart = Answer(calls[1])[1].chart
    /\ ~store.isLoading

IsPrefix(old, new) ==
    Len(old) <= Len(new) /\ SubSeq(new, 1, Len(old)) = old

\* C11: the message list is never empty and its first message is never a
\* user message, whatever calls are started, cleared away or settle after
\* a clearMessages.
C11_FirstMessageNeverUser ==
    store.messages # <<>> /\ store.messages[1].role # "user"

C11_Witness ==
    /\ \E c \in CallIds : calls[c].pc = "done"
    /\ Len(store.messages) = 2
    /\ store.messages[1] = ClearedMessage
    /\ store.messages[2].role = "assistant"
    /\ store.messages[2].content = Some("ok")

\* C12: a clearMessages step leaves exactly one message, of role
\* assistant, and no chart, and changes neither the layer list, nor
\* isLoading, nor pendingMapAction.
C12_ClearMessagesResets ==
    [][ClearMessages
          => /\ Len(store'.messages) = 1
             /\ store'.messages[1].role = "assistant"
             /\ store'.currentChart = None
             /\ store'.layers = store.layers
             /\ store'.isLoading = store.isLoading
             /\ store'.pendingMapAction = store.pendingMapAction]_vars

C12_Witness ==
    /\ store.messages = <<ClearedMessage>>
    /\ store.currentChart = None
    /\ \E c \in CallIds : calls[c].pc = "done" /\ HasChart(calls[c])
    /\ store.layers # <<>>
    /\ store.isLoading
    /\ store.pendingMapAction # None

\* C13: on every layer list and for every id, toggleLayerVisibility applied
\* twice gives back the list itself; applied once it keeps the length and
\* the order, flips the visible flag of the layer of that id and nothing
\* else, and leaves the list as it is when no layer has that id.
C13_ToggleIsSelfInverse ==
    \A id \in LayerIds :
        LET once == toggleLayerVisibility(World, id).s.layers
            twice == toggleLayerVisibility(toggleLayerVisibility(World, id), id).s.layers
        IN  /\ twice = store.layers
            /\ Len(once) = Len(store.layers)
            /\ \A i \in 1..Len(once) :
                   once[i] = IF store.layers[i].id = id
                             THEN [store.layers[i] EXCEPT !.visible = ~@]
                             ELSE store.layers[i]
            /\ id \notin Ids(store.layers) => once = store.layers

C13_Witness ==
    /\ Len(store.layers) = 3
    /\ store.layers[1].id = "air" /\ store.layers[1].visible
    /\ store.layers[1].opacity = 50
    /\ store.layers[2].id = "glaciers" /\ ~store.layers[2].visible
    /\ store.layers[3].id = "fire"
    /\ ~toggleLayerVisibility(World, "air").s.layers[1].visible

\* C20: every step other than clearMessages keeps the message list as a
\* prefix of the new one: starting and settling calls and adding, removing
\* or toggling layers that a message's layer snapshot holds.
C20_MessagesAppendOnly ==
    [][ClearMessages \/ IsPrefix(store.messages, store'.messages)]_vars

C20_Witness ==
    /\ \E i \in 1..Len(store.messages) :
           store.messages[i].mapLayers = Some(<<toMapLayer(WireAir)>>)
    /\ store.layers = <<[toMapLayer(WireAirLine) EXCEPT !.visible = FALSE]>>
    /\ Len(store.messages) >= 4

\* C14: a toggle3D step negates is3DEnabled, makes the pitch 45 when 3D is
\* now enabled and 0 when it is now disabled, and keeps longitude,
\* latitude, zoom and bearing; from 3D off with pitch 0 one toggle gives
\* 3D on with pitch 45 and a second gives 3D off with pitch 0.
C14_Toggle3DSetsPitch ==
    [][Toggle3D
          => /\ store'.is3DEnabled = ~store.is3DEnabled
             /\ store'.viewState.pitch = IF store'.is3DEnabled THEN 45 ELSE 0
             /\ store'.viewState.longitude = store.viewState.longitude
             /\ store'.viewState.latitude = store.viewState.latitude
             /\ store'.viewState.zoom = store.viewState.zoom
             /\ store'.viewState.bearing = store.viewState.bearing
             /\ (~store.is3DEnabled /\ store.viewState.pitch = 0)
                   => /\ store'.is3DEnabled /\ store'.viewState.pitch = 45
                      /\ ~toggle3D([World EXCEPT !.s = store']).s.is3DEnabled
                      /\ toggle3D([World EXCEPT !.s = store']).s.viewState.pitch = 0]_vars

C14_Witness ==
    /\ store.is3DEnabled
    /\ store.viewState = [longitude |-> 71, latitude |-> 51, zoom |-> 6,
                          pitch |-> 45, bearing |-> 90]
    /\ store.selectedBasemap = "satellite"

\* C16 as claimed: when the response of a settling call has no message
\* field, the message appended is the generic error message and the layer
\* list and the chart stay as they were.
C16_MissingMessageIsFatalToTurn ==
    [][\A c \in CallIds :
          (/\ Settling(c)
           /\ Answer(calls'[c]) # None
           /\ Answer(calls'[c])[1].message = None)
              => /\ Len(store'.messages) = Len(store.messages) + 1
                 /\ Last(store'.messages).role = "assistant"
                 /\ Last(store'.messages).content = Some(FailedText)
                 /\ store'.layers = store.layers
                 /\ store'.currentChart = store.currentChart]_vars

\* C17: for every call that settled after a transport failure of its POST,
\* geoApi.chat returned a response (nothing was thrown to sendMessage) of
\* status "error" whose message is the local text made from the query and
\* which has no map_layers, no chart and no map_action.
C17_TransportFailureIsSynthesized ==
    \A c \in CallIds :
        (calls[c].pc = "done" /\ calls[c].outcome = Some(TransportFailure))
            => /\ Answer(calls[c]) # None
               /\ Answer(calls[c])[1].status = "error"
               /\ Answer(calls[c])[1].message = Some(FallbackText[calls[c].query[1]])
               /\ Answer(calls[c])[1].map_layers = None
               /\ Answer(calls[c])[1].chart = None
               /\ Answer(calls[c])[1].map_action = None

C17_Witness ==
    /\ calls[1].pc = "done" /\ calls[1].outcome = Some(TransportFailure)
    /\ calls[1].query = Some("show fires")
    /\ calls[2].pc = "waiting"
    /\ Last(store.messages).content = Some(FallbackText["show fires"])
    /\ store.isLoading = FALSE

\* C15: when every POST settles, every call that was started settles (its
\* continuation runs to the end of the finally block, whatever the
\* outcome), and whenever no call is in flight isLoading is false.
C15_EveryCallSettles ==
    /\ \A c \in CallIds : (calls[c].pc = "waiting") ~> (calls[c].pc = "done")
    /\ []((\A c \in CallIds : calls[c].pc # "waiting") => ~store.isLoading)

C15_Witness ==
    /\ \A c \in CallIds : calls[c].pc = "done"
    /\ \E c \in CallIds : calls[c].outcome = Some(NullBody)
    /\ \E c \in CallIds : calls[c].outcome = Some(TransportFailure)
    /\ store.messages[1] = ClearedMessage
    /\ ~store.isLoading

\* C19: a step that hands no action to setMapAction (addLayer, removeLayer,
\* toggleLayerVisibility, setViewState, toggle3D, setBasemap, and the
\* addMessage, setLoading and setChart of a call without a map action)
\* does not run the observer's listener and issues no camera command,
\* also while an action set before the observer subscribed is in the slot.
C19_UnrelatedWritesIssueNoCommand ==
    [][enqueued' = enqueued
          => /\ camera' = camera
             /\ obs'.consumed = obs.consumed
             /\ store'.pendingMapAction = store.pendingMapAction]_vars

C19_Witness ==
    /\ obs.subscribed /\ obs.mapRef
    /\ store.pendingMapAction = Some([ref |-> 1, a |-> FlyTo])
    /\ camera = <<>>
    /\ store.layers = <<[toMapLayer(WireAir) EXCEPT !.visible = FALSE]>>
    /\ store.is3DEnabled
    /\ store.selectedBasemap = "satellite"
    /\ calls[1].pc = "done"
    /\ store.currentChart = Some("bar")

\* the statements of call c that have run, in order
Tags(c) ==
    LET own == SelectSeq(log, LAMBDA e : e[2] = c)
    IN  [i \in 1..Len(own) |-> own[i][1]]

Stepped(c, tag) == log' = Append(log, <<tag, c>>)

StepsOfTry ==
    <<"user", "loadingOn", "invoke", "assistant", "layers", "chart", "mapAction",
      "loadingOff">>

StepsOfCatch == <<"user", "loadingOn", "invoke", "assistant", "loadingOff">>

\* C18: the statements of one call run in the order user message,
\* isLoading true, backend invoked, assistant message, layers, chart, map
\* action, isLoading false (after a throw: assistant message, isLoading
\* false); each changes only its own part of the store, and the backend is
\* invoked only when the newest message is the call's user message and
\* isLoading is true.
C18_StepsInOrder ==
    /\ [](\A c \in CallIds :
            IsPrefix(Tags(c), StepsOfTry) \/ IsPrefix(Tags(c), StepsOfCatch))
    /\ [][\A c \in CallIds :
            /\ Stepped(c, "user")
                  => /\ Len(store'.messages) = Len(store.messages) + 1
                     /\ Last(store'.messages).role = "user"
                     /\ store'.isLoading = store.isLoading
            /\ Stepped(c, "loadingOn")
                  => /\ store'.isLoading
                     /\ store'.messages = store.messages
                     /\ Last(store.messages).role = "user"
            /\ Stepped(c, "invoke")
                  => /\ Last(store.messages).role = "user"
                     /\ Last(store.messages).content = calls'[c].query
                     /\ store.isLoading
                     /\ store' = store
            /\ Stepped(c, "assistant")
                  => /\ Len(store'.messages) = Len(store.messages) + 1
                     /\ Last(store'.messages).role = "assistant"
                     /\ store'.layers = store.layers
                     /\ store'.currentChart = store.currentChart
                     /\ store'.pendingMapAction = store.pendingMapAction
                     /\ store'.isLoading = store.isLoading
            /\ (Stepped(c, "layers") \/ Stepped(c, "chart") \/ Stepped(c, "mapAction"))
                  => /\ store'.messages = store.messages
                     /\ store'.isLoading = store.isLoading
                     /\ Last(store.messages).role = "assistant"
            /\ Stepped(c, "loadingOff")
                  => /\ ~store'.isLoading
                     /\ store'.messages = store.messages
                     /\ store'.layers = store.layers
                     /\ store'.currentChart = store.currentChart
                     /\ store'.pendingMapAction = store.pendingMapAction]_vars

C18_Witness ==
    /\ Tags(1) = StepsOfTry
    /\ Tags(2) = StepsOfCatch
    /\ Before(<<"invoke", 2>>, <<"assistant", 1>>)
    /\ Before(<<"loadingOff", 1>>, <<"assistant", 2>>)
    /\ store.layers # <<>> /\ store.currentChart # None
    /\ store.pendingMapAction # None
    /\ ~store.isLoading

\* C21 as claimed: the ids of the messages in the list are pairwise
\* distinct.
C21_MessageIdsDistinct ==
    \A i, j \in 1..Len(store.messages) :
        i # j => store.messages[i].id # store.messages[j].id

\* C22 as claimed: when a call settles with a response of status success,
\* the message appended is an assistant message with the response's text,
\* code, chart and map action and the snapshot of its layers.
C22_AssistantMessageCarriesAll ==
    [][\A c \in CallIds :
          (/\ Settling(c)
           /\ Answer(calls'[c]) # None
           /\ Answer(calls'[c])[1].status = "success")
              => LET r == Answer(calls'[c])[1]
                     m == Last(store'.messages)
                 IN  /\ m.role = "assistant"
                     /\ m.content = r.message
                     /\ Field(m, "code") = Field(r, "code")
                     /\ m.chart = r.chart
                     /\ m.mapAction = r.map_action
                     /\ m.mapLayers = IF r.map_layers = None THEN None
                                      ELSE Some(toMapLayers(r.map_layers[1]))]_vars

\* C23 as claimed: the reconnect counter never exceeds 5, at most 5
\* sockets are created by reconnect timers without an onopen in between,
\* and every pending reconnect timer was set to k * 2 seconds, k in 1..5.
C23_BoundedLinearBackoff ==
    /\ channel.reconnectAttempts <= maxReconnectAttempts
    /\ channel.made <= maxReconnectAttempts
    /\ \A c \in Chains :
           channel.sockets[c].st = "timer"
               => \E k \in 1..maxReconnectAttempts :
                      channel.sockets[c].delay = k * BackoffMs

\* the counter is at its maximum, no socket is connecting, open or closing
\* and no reconnect timer is pending
Exhausted ==
    /\ channel.reconnectAttempts = maxReconnectAttempts
    /\ \A c \in Chains : channel.sockets[c].st \in {"unused", "dead"}

ExplicitConnect == \E c \in Chains : Connect(c)

AutomaticAttempt == \E c \in Chains : ReconnectTimer(c)

SuccessfulOpen == \E c \in Chains : OnOpen(c)

\* C24 as claimed: an execution in which connect() is called only finitely
\* often has only finitely many automatic reconnection attempts.
C24_NoInfiniteAutomaticReconnection ==
    (<>[][~ExplicitConnect]_vars) => (<>[][~AutomaticAttempt]_vars)

\* C24: once the reconnection attempts are exhausted the channel stays as
\* it is until connect() is called, and an execution in which connect() is
\* called and a socket opens only finitely often has only finitely many
\* automatic reconnection attempts.
C24_NoInfiniteReconnectionWithoutOpens ==
    /\ [][Exhausted => (Exhausted' \/ ExplicitConnect)]_vars
    /\ ((<>[][~ExplicitConnect]_vars) /\ (<>[][~SuccessfulOpen]_vars))
           => (<>[][~AutomaticAttempt]_vars)

C24_Witness ==
    /\ Exhausted
    /\ channel.made = maxReconnectAttempts
    /\ channel.messageHandler
    /\ channel.ws # 0

\* the class the claim gives to a feature's properties
ClaimedFeatureType(props) ==
    IF props.type \in {Some("glacier"), Some("river"), Some("lake"), Some("city")}
    THEN props.type[1]
    ELSE IF props.glacier_type # None THEN "glacier"
    ELSE IF props.discharge # None THEN "river"
    ELSE IF props.lake_type # None THEN "lake"
    ELSE IF props.population # None THEN "city"
    ELSE "generic"

\* C25 as claimed: the popup of a clicked feature has the type named by
\* the feature's type field when that is glacier, river, lake or city, and
\* otherwise the type of the first property present among glacier_type,
\* discharge, lake_type and population, or generic.
C25_TypeFieldFirst ==
    popupData # None
        => popupData[1].type = ClaimedFeatureType(popupData[1].properties)

\* the primitives rendered for the layer of this id: their suffixes and types
PrimitivesOf(id) ==
    LET r == RenderedLayers(store.layers)
        own == SelectSeq(r, LAMBDA e : e.id = id)
    IN  IF own = <<>> THEN <<>>
        ELSE [i \in 1..Len(own[1].primitives) |->
                <<own[1].primitives[i].id[2], own[1].primitives[i].type>>]

\* the primitive set the claim gives a type tag
ClaimedPrimitives(type) ==
    IF type = "circle" THEN << <<"circle", "circle">>, <<"label", "symbol">> >>
    ELSE IF type = "heatmap" THEN << <<"heat", "heatmap">> >>
    ELSE IF type = "fill-extrusion" THEN << <<"extrusion", "fill-extrusion">> >>
    ELSE IF type = "line" THEN << <<"line", "line">> >>
    ELSE << <<"fill", "fill">>, <<"outline", "line">> >>

\* C26: every visible layer of the layer list is rendered as the primitives
\* of its type (an unknown type as geojson), one rendered entry per visible
\* layer, and a layer that is not visible has no primitive.
C26_PrimitivesByTypeAndVisibility ==
    /\ Len(RenderedLayers(store.layers))
          = Cardinality({ i \in 1..Len(store.layers) : store.layers[i].visible })
    /\ \A i \in 1..Len(store.layers) :
           PrimitivesOf(store.layers[i].id)
               = IF store.layers[i].visible
                 THEN ClaimedPrimitives(store.layers[i].type)
                 ELSE <<>>

C26_Witness ==
    /\ Len(store.layers) = 2
    /\ store.layers[1].type = "raster" /\ store.layers[1].visible
    /\ store.layers[1].opacity = 0
    /\ store.layers[2].type = "heatmap" /\ ~store.layers[2].visible
    /\ Len(RenderedLayers(store.layers)) = 1
    /\ Len(RenderedLayers(store.layers)[1].primitives) = 2

\* the opacity of the rendered primitive of this layer with this suffix
OpacityOf(layer, suffix) ==
    LET ps == renderLayer(layer)
        i == CHOOSE k \in 1..Len(ps) : ps[k].id[2] = suffix
    IN  ps[i].opacity

\* C30 as claimed: for every visible layer, whatever its opacity, a circle
\* layer's circle-opacity and a line layer's line-opacity are the layer's
\* opacity, and of every other layer not heatmap or fill-extrusion the
\* fill-opacity is the descriptor's fill-opacity (0.3 when it has none)
\* times the layer's opacity and the outline's line-opacity is the layer's
\* opacity.
C30_OpacityScalesPrimaryChannel ==
    \A i \in 1..Len(store.layers) :
        LET layer == store.layers[i]
        IN  layer.visible
                => IF layer.type = "circle"
                   THEN OpacityOf(layer, "circle") = Some(100 * layer.opacity)
                   ELSE IF layer.type = "line"
                   THEN OpacityOf(layer, "line") = Some(100 * layer.opacity)
                   ELSE IF layer.type \in {"heatmap", "fill-extrusion"}
                   THEN TRUE
                   ELSE /\ OpacityOf(layer, "fill")
                             = Some((IF Paint(layer, "fill-opacity") = None THEN 30
                                     ELSE Paint(layer, "fill-opacity")[1])
                                    * layer.opacity)
                        /\ OpacityOf(layer, "outline") = Some(100 * layer.opacity)

\* the value the claim gives an option of a command: the action's own
\* value when it has the field, else the default
ClaimedOption(action, name, default) ==
    IF Field(action, name) = None THEN default ELSE Field(action, name)[1]

\* C27 as claimed: every flyTo command issued has the zoom, pitch, bearing
\* and duration of its action where the action has them, 0 included, and
\* 12, 0, 0 and 2000 ms where it has not.
C27_FlyToUsesOwnOptions ==
    \A i \in 1..Len(camera) :
        camera[i].cmd = "flyTo"
            => LET a == enqueued[camera[i].ref]
               IN  /\ camera[i].options.zoom = ClaimedOption(a, "zoom", 12)
                   /\ camera[i].options.pitch = ClaimedOption(a, "pitch", 0)
                   /\ camera[i].options.bearing = ClaimedOption(a, "bearing", 0)
                   /\ camera[i].options.duration = ClaimedOption(a, "duration", 2000)

\* C28 as claimed: every fitBounds command issued has the padding and the
\* duration of its action where the action has them, and 50 and 2000 ms
\* where it has not.
C28_FitBoundsUsesOwnOptions ==
    \A i \in 1..Len(camera) :
        camera[i].cmd = "fitBounds"
            => LET a == enqueued[camera[i].ref]
               IN  /\ camera[i].options.padding = ClaimedOption(a, "padding", 50)
                   /\ camera[i].options.duration = ClaimedOption(a, "duration", 2000)

\* C29: when a call settles with a successful response, the layer list
\* stays as it is (manual edits made meanwhile included) if the response
\* has no map_layers, the chart stays if it has no chart and becomes the
\* response's chart if it has one, and pendingMapAction stays if it has no
\* map_action.
C29_MissingOptionalFieldsSkipped ==
    [][\A c \in CallIds :
          (/\ Settling(c)
           /\ Answer(calls'[c]) # None
           /\ Answer(calls'[c])[1].status = "success")
              => LET r == Answer(calls'[c])[1]
                 IN  /\ r.map_layers = None => store'.layers = store.layers
                     /\ r.chart = None => store'.currentChart = store.currentChart
                     /\ r.chart # None => store'.currentChart = r.chart
                     /\ r.map_action = None
                           => store'.pendingMapAction = store.pendingMapAction]_vars

C29_Witness ==
    /\ log = << <<"start", 1>>, <<"start", 2>>, <<"settle", 2>>, <<"settle", 1>> >>
    /\ Answer(calls[2])[1].chart = Some("line")
    /\ Answer(calls[1])[1].chart = None
    /\ Answer(calls[1])[1].map_layers = None
    /\ Answer(calls[1])[1].map_action = None
    /\ store.layers = <<[toMapLayer(WireAir) EXCEPT !.visible = FALSE]>>
    /\ store.currentChart = Some("line")
    /\ store.pendingMapAction = Some([ref |-> 1, a |-> FlyTo])

\* C31 as claimed: for every visible layer and every numeric paint field of
\* its type, the primitive gets the descriptor's value when the descriptor
\* has the field, 0 included (the fill-opacity times the layer's opacity),
\* and the default of the type only when the field is absent.
C31_SuppliedPaintPassedUnchanged ==
    \A i \in 1..Len(store.layers) :
        LET layer == store.layers[i]
        IN  layer.visible
              => \A n \in DOMAIN PaintDefaults(layer.type) :
                    LET v == IF Paint(layer, n) = None
                             THEN PaintDefaults(layer.type)[n]
                             ELSE Paint(layer, n)[1]
                    IN  renderPaint(layer)[n]
                          = IF n = "fill-opacity" THEN v * layer.opacity
                            ELSE IF n \in {"heatmap-opacity", "fill-extrusion-opacity"}
                            THEN 100 * v
                            ELSE v

\* C32: a click on a feature makes the popup that feature alone (one of the
\* five classes, the click's coordinates, all of its properties) whatever
\* the popup was, and leaves the tooltip; a mouse move leaves the popup; a
\* click on no feature leaves the popup; closePopup makes the popup none,
\* from an open and from a closed popup alike.
C32_PopupAndTooltipIndependent ==
    [][/\ \A f \in Features, ll \in LngLats :
             OnClick(<<f>>, ll)
                => /\ popupData' # None
                   /\ popupData'[1].type \in {"glacier", "river", "lake", "city", "generic"}
                   /\ popupData'[1].coordinates = ll
                   /\ popupData'[1].properties
                         = (IF f.properties = None THEN NoProperties
                            ELSE f.properties[1])
                   /\ hoveredFeature' = hoveredFeature
       /\ \A ll \in LngLats :
             OnClick(<<>>, ll)
                => popupData' = popupData /\ hoveredFeature' = hoveredFeature
       /\ \A fs \in {<<>>} \cup {<<f>> : f \in HoverFeatures} :
             OnMouseMove(fs) => popupData' = popupData
       /\ ClosePopup => popupData' = None /\ hoveredFeature' = hoveredFeature]_vars

C32_Witness ==
    /\ popupData # None
    /\ popupData[1].coordinates = <<77, 43>>
    /\ popupData[1].properties.type = Some("lake")
    /\ hoveredFeature = Some("Ili")

\* C33: in every state reached by zoomIn, zoomOut, resetView, toggle3D and
\* sendMessage calls (and basemap changes) the zoom is at least 0.
C33_ZoomNeverNegative == store.viewState.zoom >= 0

C33_Witness ==
    /\ store.viewState.zoom = 0
    /\ store.viewState.pitch = 45
    /\ \E c \in CallIds : calls[c].pc = "done" /\ Answer(calls[c])[1].map_action # None

\* the fields of the store sendMessage is claimed to leave alone
ViewAndUi(s) ==
    <<s.viewState, s.selectedBasemap, s.is3DEnabled, s.isSidebarOpen,
      s.activePanel, s.showCode, s.showChart>>

\* C36: a step in which a sendMessage call starts or settles leaves
\* viewState (whatever the map controls made of it meanwhile),
\* selectedBasemap, is3DEnabled and the UI flags as they were.
C36_SendMessageLeavesViewAndUi ==
    [][\A c \in CallIds :
          (Starting(c) \/ Settling(c)) => ViewAndUi(store') = ViewAndUi(store)]_vars

C36_Witness ==
    /\ calls[1].pc = "done"
    /\ Answer(calls[1])[1].map_action = Some(FlyTo)
    /\ Len(obs.consumed) = 1
    /\ store.layers = toMapLayers(<<WireFire>>)
    /\ ~store.isSidebarOpen
    /\ store.activePanel = "layers"
    /\ store.showCode
    /\ ~store.showChart
    /\ store.viewState.zoom = 6
    /\ store.viewState.pitch = 45
    /\ store.is3DEnabled
    /\ store.selectedBasemap = "satellite"

\* C34: setLayerOpacity(id, value) keeps the number of layers and, position
\* by position, their ids and visibility; the layer with that id gets
\* exactly the value, outside [0, 1] too, and nothing else of it changes;
\* every other layer is as it was; with no layer of that id the list is as
\* it was.
C34_OpacityStoredAsPassed ==
    [][\A id \in LayerIds, o \in StoredOpacities :
          SetLayerOpacity(id, o)
             => /\ Len(store'.layers) = Len(store.layers)
                /\ \A i \in 1..Len(store.layers) :
                      /\ store'.layers[i].id = store.layers[i].id
                      /\ store'.layers[i].visible = store.layers[i].visible
                      /\ store.layers[i].id = id
                            => /\ store'.layers[i].opacity = o
                               /\ [store'.layers[i] EXCEPT !.opacity = 100]
                                     = [store.layers[i] EXCEPT !.opacity = 100]
                      /\ store.layers[i].id # id
                            => store'.layers[i] = store.layers[i]
                /\ (\A i \in 1..Len(store.layers) : store.layers[i].id # id)
                      => store'.layers = store.layers]_vars

C34_Witness ==
    /\ Len(store.layers) = 2
    /\ store.layers[1].id = "glaciers" /\ store.layers[1].opacity = 150
    /\ ~store.layers[1].visible
    /\ store.layers[2].id = "air" /\ store.layers[2].opacity = -20

\* C35 as claimed: in every state in which a sendMessage call has started
\* and has not settled, isLoading is true.
C35_LoadingWhileOutstanding ==
    (\E c \in CallIds : calls[c].pc = "waiting") => store.isLoading

\* C37 as claimed (its conclusion): never are two handleSend requests in
\* flight at the same time.
C37_HandleSendSingleFlight ==
    Cardinality({ c \in CallIds : sends[c].pc = "waiting" }) <= 1

\* the fields of the store the two dispatchers are compared on
Applied(s) ==
    <<s.layers, s.currentChart, s.pendingMapAction, s.viewState, s.isLoading>>

\* C38 as claimed: when a handleSend call settles, the layers, the chart,
\* pendingMapAction, viewState and isLoading are what the store's
\* sendMessage makes of the same response from the same state.
C38_DispatchPathsAgree ==
    [][\A c \in CallIds :
          (sends[c].pc = "waiting" /\ sends'[c].pc = "done")
             => Applied(store')
                  = Applied(sendMessageResume(World, Answer(sends'[c])).s)]_vars

\* disconnect() has been called and connect() has not run since: this.ws is
\* null although a handler is registered
Disconnected == channel.ws = 0 /\ channel.messageHandler

\* C39 as claimed: while the channel is disconnected by disconnect(), no
\* step schedules a reconnection and no reconnect timer opens a new socket.
C39_DisconnectIsFinal ==
    [][Disconnected
          => /\ ~AutomaticAttempt
             /\ \A c \in Chains :
                    channel'.sockets[c].st = "timer" => channel.sockets[c].st = "timer"]_vars

====
